---- MODULE Spec2Model ----
(***************************************************************************)
(* Attentiveness monitor.  Parts of the program are followed, each by      *)
(* a specification of its own over the variables it works on (the other    *)
(* variables keep their initial values):                                   *)
(*                                                                         *)
(*   Spec        the per-frame status pipeline of AttentivenessMonitor     *)
(*               (master_controller_gui.py), the face-presence and         *)
(*               multiple-face classifiers, the inactivity tracker and the *)
(*               on/off flag of the emergency escalator;                   *)
(*   EscSpec     EmergencyWakeup (utils/emergency_wakeup.py) with its      *)
(*               flash timer and its two background threads, called in any *)
(*               order; EscLive is EscSpec with the threads scheduled      *)
(*               fairly;                                                   *)
(*   IdleSpec    sessions with the ticks of the frame timer that arrive    *)
(*               between them, while detection is stopped;                 *)
(*   CloseSpec   sessions of frames without a face, ended by closing the   *)
(*               application (close_application, closeEvent);              *)
(*   SpeechSpec  AIFeedback (utils/ai_feedback.py): speak_status and the   *)
(*               consumer thread of the speech queue;                      *)
(*   ExtractSpec the EAR and MAR extractors (utils/eye_tracking.py,        *)
(*               utils/yawn_detection.py) with their smoothing histories;  *)
(*   LogSpec     ActivityLogger (utils/activity_logger.py) with its file,  *)
(*               written by update_status and cleared by clear_logs.       *)
(*                                                                         *)
(* Units.  Time is counted in whole seconds (time.time() read as an        *)
(* integer), EAR and MAR in hundredths (0.22 is 22, 0.6 is 60).  Python's  *)
(* None is the integer None == -1, which no time and no duration equals.   *)
(* One handler runs within one tick of the clock: every time.time() it     *)
(* reads returns the same second.  A handler of the GUI thread is one      *)
(* step; a background thread takes one step per shared field it reads or   *)
(* writes.                                                                 *)
(*                                                                         *)
(* Not modelled: the camera buttons (open_camera, close_camera: they only  *)
(* pause and resume the frames), the widgets' texts and colours, the       *)
(* drawing on the frame, the texts of the spoken messages, and the sound   *)
(* devices.  In Spec and CloseSpec the speech sink is left out (the        *)
(* pipeline never reads it back) and the escalator is its flag and its     *)
(* "normal" signal.  Fields that the pipeline writes and never reads        *)
(* (last_active_time, previous_status, last_face_detected_time, and        *)
(* last_ear, last_mar, which only fill the EAR and MAR columns of the log) *)
(* are left out.  The text-to-speech engine of AIFeedback is taken as      *)
(* initialised.                                                            *)
(***************************************************************************)
EXTENDS Integers, Sequences, FiniteSets, TLC

\* ------------------------------------------------------------------ bounds
\* The clock stops advancing at MaxTime; one handler runs at most MaxStep
\* seconds after the previous one; the consecutive-frame counters are capped
\* at MaxCount; the face mesh reports at most MaxFaces faces.
MaxTime == 10
MaxStep == 1
MaxCount == 6
MaxFaces == 2
\* The flash timer fires at most MaxFlash times in one emergency; calls of
\* cleanup are counted up to MaxCleanups; the speech queue holds at most
\* MaxQueue messages.
MaxFlash == 3
MaxCleanups == 2
MaxQueue == 2
\* An extractor is followed for at most MaxEarSamples (EyeTracker) or
\* MaxMarSamples (YawnDetector) measured frames since its reset, one more than
\* its history holds, and a run has at most MaxUnusual frames other than the
\* face at rest (see ExtractSpec).
MaxEarSamples == 9
MaxMarSamples == 11
MaxUnusual == 2
\* the log file holds at most MaxRows rows after its header, written in the
\* first MaxLogTime seconds
MaxRows == 3
MaxLogTime == 3

\* --------------------------------------------------------------- constants
None == -1
short_absence_threshold == 3
long_absence_threshold == 10
inactivity_threshold == 5
drowsy_threshold == 5
yawn_threshold == 3
drowsy_ear_threshold == 22
yawn_mar_threshold == 60
min_speech_interval == 3

\* the values an extractor hands to the classifier: both sides of, and
\* exactly on, each threshold
EarValues == {drowsy_ear_threshold - 1, drowsy_ear_threshold}
MarValues == {yawn_mar_threshold, yawn_mar_threshold + 1}

VARIABLES
  \* AttentivenessMonitor
  cap,                  \* "None" | "Opened" | "Closed": self.cap
  timer_active,         \* self.timer.isActive()
  detection_active,
  current_status,
  inactive_start_time,
  emergency_triggered,
  drowsy_counter, yawn_counter,
  start_detection_btn, stop_detection_btn,   \* isEnabled()
  \* FacePresenceDetector
  face_lost_time,
  \* EmergencyWakeup
  is_emergency_active,
  \* ActivityLogger
  last_inactive_start,
  \* the clock: the value of the latest time.time() read
  clock,
  \* what the latest handler emitted
  logged,               \* the rows it appended to the log, in order
  flashed,              \* the flash_signal values it emitted, in order
  \* observation of the latest handler and frame
  lastOp,               \* the latest step: "init" | "start" | "start_failed" |
                        \* "stop" | "frame", or the step's name in the other parts
  path,                 \* branch of process_frame taken by the latest frame of the session
  faceCount,            \* len(results.multi_face_landmarks) of that frame
  frameTime,            \* current_time (line 291) of that frame
  frameEar, frameMar,   \* the EAR and MAR it gave determine_status_simple (0: not called)
  absentSince,          \* history: see update_frame
  drowsyRun, yawnRun,   \* history: see update_frame
  \* EmergencyWakeup, in EscSpec
  flash_timer,          \* "None" | "Running": no QTimer, or one that is started
  flash_count,
  siren_thread,         \* "None" | "loop" | "exit" | "dead": see is_alive
  tts_thread,
  tts_engine,           \* TRUE: the pyttsx3 engine; FALSE: None
  siren_sound,          \* TRUE: the generated Sound; FALSE: None
  cleanup_calls,        \* history: the calls of cleanup so far, up to MaxCleanups
  started,              \* what the latest step started: "siren", "tts", "flash"
  sounded,              \* the alerts the latest step issued: "siren", "beep", "voice"
  lastFlash,            \* history: the latest colour emitted since the latest
                        \* trigger, "none" before the first
  tick_pending,         \* a timeout of a flash timer that stop_emergency
                        \* stopped is still to be delivered
  \* close_application, in CloseSpec
  steps,                \* what the latest close did, in order
  \* AIFeedback, in SpeechSpec
  speech_queue,         \* the (status, priority) messages in the queue, oldest first
  is_speaking,
  speech_data,          \* <<>> or <<message>>: the message the consumer holds
  worker_pc,            \* "get" | "got" | "speaking": where _speech_worker is
  last_spoken_status,   \* "" is None
  last_speech_time,
  call_status,          \* the status the latest speak_status was called with
  call_pending,         \* history: a high-priority message was pending at that call
  call_enqueued,        \* that call put its message in the queue
  \* EyeTracker and YawnDetector, in EarSpec and MarSpec
  ear_history, last_ear,
  mar_history, last_mar,
  landmarks,            \* the landmarks of the latest call
  head_pose_data,       \* the head pose of the latest call
  returned,             \* the value the latest call returned
  samples,              \* history: the raw ratios of the frames since reset_state
  all_valid,            \* history: every frame since reset_state was measured
  unusual,              \* history: the calls counted against MaxUnusual
  \* ActivityLogger, in LogSpec
  log_file,             \* the file: whether it exists, and its rows after the header
  write_ok,             \* the latest handler could append to the file
  finished              \* the latest handler ran to its end

vars ==
  <<cap, timer_active, detection_active, current_status, inactive_start_time,
    emergency_triggered, drowsy_counter, yawn_counter,
    start_detection_btn, stop_detection_btn,
    face_lost_time, is_emergency_active, last_inactive_start, clock, logged,
    flashed, lastOp, path, faceCount, frameTime, frameEar, frameMar, absentSince,
    drowsyRun, yawnRun,
    flash_timer, flash_count, siren_thread, tts_thread, tts_engine, cleanup_calls,
    started, sounded, lastFlash, tick_pending, steps,
    speech_queue, is_speaking, speech_data, worker_pc, last_spoken_status,
    last_speech_time, call_status, call_pending, call_enqueued,
    siren_sound,
    ear_history, last_ear, mar_history, last_mar, landmarks, head_pose_data,
    returned, samples, all_valid, unusual,
    log_file, write_ok, finished>>

\* the variables of each part
pipelineVars ==
  <<cap, timer_active, detection_active, current_status, inactive_start_time,
    emergency_triggered, drowsy_counter, yawn_counter,
    start_detection_btn, stop_detection_btn, face_lost_time,
    last_inactive_start, logged, path, faceCount, frameTime, frameEar,
    frameMar, absentSince, drowsyRun, yawnRun>>

escalatorVars ==
  <<flash_timer, flash_count, siren_thread, tts_thread, tts_engine,
    siren_sound, cleanup_calls, started, sounded, lastFlash, tick_pending>>

closeVars == <<steps>>

speechVars ==
  <<speech_queue, is_speaking, speech_data, worker_pc, last_spoken_status,
    last_speech_time, call_status, call_pending, call_enqueued>>

extractorVars ==
  <<ear_history, last_ear, mar_history, last_mar, landmarks, head_pose_data,
    returned, samples, all_valid, unusual>>

loggerVars == <<log_file, write_ok, finished>>

\* --------------------------------------------------------- ActivityLogger
\* one row of the log: the Status, Description and Inactive_Duration columns
\* (Inactive_Duration '-' is None)
log_event(status, description, inactive_duration) ==
  [status |-> status, description |-> description,
   inactive_duration |-> inactive_duration]

\* m is the record of the mutable state a handler works on (see MonitorState)
_is_inactive_status(status) ==
  status \in {"Drowsy", "Yawning", "Inactive (Face Missing)", "Not Awake",
              "Multiple Persons Detected", "Inactive"}

\* faulty copy: a transition between two inactive statuses restarts the tracking
log_status_change_restart(m, old_status, new_status, current_time) ==
  LET toActive == _is_inactive_status(old_status) /\ new_status = "Active"
      fromActive == old_status = "Active" /\ _is_inactive_status(new_status)
      stay == _is_inactive_status(old_status) /\ _is_inactive_status(new_status)
      inactive_duration ==
        IF toActive /\ m.last_inactive_start # None
        THEN current_time - m.last_inactive_start
        ELSE None
      tracking ==
        IF toActive THEN None
        ELSE IF fromActive \/ stay THEN current_time
        ELSE None
  IN [m EXCEPT !.last_inactive_start = tracking,
               !.logged = Append(@, log_event(new_status, "Status changed",
                                              inactive_duration))]

log_status_change(m, old_status, new_status, current_time) ==
  LET toActive == _is_inactive_status(old_status) /\ new_status = "Active"
      fromActive == old_status = "Active" /\ _is_inactive_status(new_status)
      stay == _is_inactive_status(old_status) /\ _is_inactive_status(new_status)
      neither == ~_is_inactive_status(old_status) /\ ~_is_inactive_status(new_status)
      inactive_duration ==
        IF toActive /\ m.last_inactive_start # None
        THEN current_time - m.last_inactive_start
        ELSE None
      tracking ==
        IF toActive THEN None
        ELSE IF fromActive THEN current_time
        ELSE IF stay THEN m.last_inactive_start
        ELSE IF neither THEN None
        ELSE m.last_inactive_start
  IN [m EXCEPT !.last_inactive_start = tracking,
               !.logged = Append(@, log_event(new_status, "Status changed",
                                              inactive_duration))]

log_detection_session(m, action) ==
  [m EXCEPT !.last_inactive_start = None,
            !.logged = Append(@, log_event("System", action, None))]

log_inactive_to_active_transition(m, total_inactive_duration) ==
  [m EXCEPT !.logged = Append(@, log_event("Active", "User returned to active state",
                                           total_inactive_duration)),
            !.last_inactive_start = None]

reset_inactive_tracking(m) == [m EXCEPT !.last_inactive_start = None]

\* -------------------------------------------------------- EmergencyWakeup
EmergencyWakeup_trigger_emergency(m) ==
  IF m.is_emergency_active THEN m
  ELSE [m EXCEPT !.is_emergency_active = TRUE]

stop_emergency(m) ==
  IF ~m.is_emergency_active THEN m
  ELSE [m EXCEPT !.is_emergency_active = FALSE,
                 !.flashed = Append(@, "normal")]

\* --------------------------------------------------- FacePresenceDetector
\* fault: the thresholds compared with > in place of >=
_handle_no_face_strict(m, current_time) ==
  LET lost == IF m.face_lost_time = None THEN current_time ELSE m.face_lost_time
      absence_duration == current_time - lost
  IN [state |-> [m EXCEPT !.face_lost_time = lost],
      status |-> IF absence_duration > long_absence_threshold THEN "Not Awake"
                 ELSE IF absence_duration > short_absence_threshold
                      THEN "Inactive (Face Missing)"
                 ELSE "Active"]

\* fault: the timer is cleared once Not Awake has been reported
_handle_no_face_restart(m, current_time) ==
  LET lost == IF m.face_lost_time = None THEN current_time ELSE m.face_lost_time
      absence_duration == current_time - lost
  IN IF absence_duration >= long_absence_threshold
     THEN [state |-> [m EXCEPT !.face_lost_time = None], status |-> "Not Awake"]
     ELSE [state |-> [m EXCEPT !.face_lost_time = lost],
           status |-> IF absence_duration >= short_absence_threshold
                      THEN "Inactive (Face Missing)"
                      ELSE "Active"]

\* the status _handle_no_face returns at time current_time
_handle_no_face(m, current_time) ==
  LET lost == IF m.face_lost_time = None THEN current_time ELSE m.face_lost_time
      absence_duration == current_time - lost
  IN [state |-> [m EXCEPT !.face_lost_time = lost],
      status |-> IF absence_duration >= long_absence_threshold THEN "Not Awake"
                 ELSE IF absence_duration >= short_absence_threshold
                      THEN "Inactive (Face Missing)"
                 ELSE "Active"]

\* detected: the detector's own face detection finds a face in the image
check_face_presence(m, detected, current_time) ==
  IF detected
  THEN [state |-> [m EXCEPT !.face_lost_time = None], status |-> "Active"]
  ELSE _handle_no_face(m, current_time)

FacePresenceDetector_reset(m) == [m EXCEPT !.face_lost_time = None]

\* --------------------------------------------------- MultipleFaceDetector
\* fault: the label handed to the inactivity tracker is returned as the status
check_multiple_faces_label(num_faces) ==
  IF num_faces > 1 THEN "Multiple Faces" ELSE ""

\* num_faces: the faces the detector's own face detection finds; "" is None
check_multiple_faces(num_faces) ==
  IF num_faces > 1 THEN "Multiple Persons Detected" ELSE ""

\* --------------------------------------------------- AttentivenessMonitor
\* fault: Drowsy only when the counter exceeds the threshold
determine_status_simple_late(m, ear, mar) ==
  LET m1 == IF ear < drowsy_ear_threshold
            THEN [m EXCEPT !.drowsy_counter = @ + 1, !.yawn_counter = 0]
            ELSE IF mar > yawn_mar_threshold
            THEN [m EXCEPT !.yawn_counter = @ + 1, !.drowsy_counter = 0]
            ELSE [m EXCEPT !.drowsy_counter = 0, !.yawn_counter = 0]
  IN [state |-> m1,
      status |-> IF m1.drowsy_counter > drowsy_threshold THEN "Drowsy"
                 ELSE IF m1.yawn_counter >= yawn_threshold THEN "Yawning"
                 ELSE "Active"]

\* fault: the last branch leaves the yawn counter as it is
determine_status_simple_keep(m, ear, mar) ==
  LET m1 == IF ear < drowsy_ear_threshold
            THEN [m EXCEPT !.drowsy_counter = @ + 1, !.yawn_counter = 0]
            ELSE IF mar > yawn_mar_threshold
            THEN [m EXCEPT !.yawn_counter = @ + 1, !.drowsy_counter = 0]
            ELSE [m EXCEPT !.drowsy_counter = 0]
  IN [state |-> m1,
      status |-> IF m1.drowsy_counter >= drowsy_threshold THEN "Drowsy"
                 ELSE IF m1.yawn_counter >= yawn_threshold THEN "Yawning"
                 ELSE "Active"]

\* fault: the first branch leaves the yawn counter as it is
determine_status_simple_both(m, ear, mar) ==
  LET m1 == IF ear < drowsy_ear_threshold
            THEN [m EXCEPT !.drowsy_counter = @ + 1]
            ELSE IF mar > yawn_mar_threshold
            THEN [m EXCEPT !.yawn_counter = @ + 1, !.drowsy_counter = 0]
            ELSE [m EXCEPT !.drowsy_counter = 0, !.yawn_counter = 0]
  IN [state |-> m1,
      status |-> IF m1.drowsy_counter >= drowsy_threshold THEN "Drowsy"
                 ELSE IF m1.yawn_counter >= yawn_threshold THEN "Yawning"
                 ELSE "Active"]

determine_status_simple(m, ear, mar) ==
  LET m1 == IF ear < drowsy_ear_threshold
            THEN [m EXCEPT !.drowsy_counter = @ + 1, !.yawn_counter = 0]
            ELSE IF mar > yawn_mar_threshold
            THEN [m EXCEPT !.yawn_counter = @ + 1, !.drowsy_counter = 0]
            ELSE [m EXCEPT !.drowsy_counter = 0, !.yawn_counter = 0]
  IN [state |-> m1,
      status |-> IF m1.drowsy_counter >= drowsy_threshold THEN "Drowsy"
                 ELSE IF m1.yawn_counter >= yawn_threshold THEN "Yawning"
                 ELSE "Active"]

\* fault: a running emergency is not stopped
reset_inactivity_tracking_nostop(m, now) ==
  LET m1 == IF m.inactive_start_time # None /\ m.current_status # "Active"
            THEN log_inactive_to_active_transition(m, now - m.inactive_start_time)
            ELSE m
  IN [m1 EXCEPT !.inactive_start_time = None, !.emergency_triggered = FALSE]

\* fault: inactive_start_time is not cleared
reset_inactivity_tracking_keep(m, now) ==
  LET m1 == IF m.inactive_start_time # None /\ m.current_status # "Active"
            THEN log_inactive_to_active_transition(m, now - m.inactive_start_time)
            ELSE m
      m2 == [m1 EXCEPT !.emergency_triggered = FALSE]
  IN IF m2.is_emergency_active THEN stop_emergency(m2) ELSE m2

\* fault: the return to Active is not logged
reset_inactivity_tracking_silent(m, now) ==
  LET m2 == [m EXCEPT !.inactive_start_time = None,
                      !.emergency_triggered = FALSE]
  IN IF m2.is_emergency_active THEN stop_emergency(m2) ELSE m2

\* now: time.time()
reset_inactivity_tracking(m, now) ==
  LET m1 == IF m.inactive_start_time # None /\ m.current_status # "Active"
            THEN log_inactive_to_active_transition(m, now - m.inactive_start_time)
            ELSE m
      m2 == [m1 EXCEPT !.inactive_start_time = None,
                       !.emergency_triggered = FALSE]
  IN IF m2.is_emergency_active THEN stop_emergency(m2) ELSE m2

trigger_emergency(m) ==
  LET m1 == EmergencyWakeup_trigger_emergency(m)
  IN [m1 EXCEPT !.logged = Append(@, log_event("Emergency", "User inactive", None))]

\* fault: emergency_triggered is not set after the trigger
handle_inactivity_tracking_nolatch(m, status, current_time, now) ==
  IF status # "Active"
  THEN LET m1 == IF m.inactive_start_time = None
                 THEN [m EXCEPT !.inactive_start_time = current_time]
                 ELSE m
           inactive_duration == current_time - m1.inactive_start_time
       IN IF inactive_duration >= inactivity_threshold /\ ~m1.emergency_triggered
          THEN trigger_emergency(m1)
          ELSE m1
  ELSE reset_inactivity_tracking(m, now)

\* faulty copy: every non-Active frame restarts the window at its own time
handle_inactivity_tracking_restart(m, status, current_time, now) ==
  IF status # "Active"
  THEN LET m1 == [m EXCEPT !.inactive_start_time = current_time]
           inactive_duration == current_time - m1.inactive_start_time
       IN IF inactive_duration >= inactivity_threshold /\ ~m1.emergency_triggered
          THEN [trigger_emergency(m1) EXCEPT !.emergency_triggered = TRUE]
          ELSE m1
  ELSE reset_inactivity_tracking(m, now)

\* faulty copy: the threshold compared with > in place of >=
handle_inactivity_tracking_strict(m, status, current_time, now) ==
  IF status # "Active"
  THEN LET m1 == IF m.inactive_start_time = None
                 THEN [m EXCEPT !.inactive_start_time = current_time]
                 ELSE m
           inactive_duration == current_time - m1.inactive_start_time
       IN IF inactive_duration > inactivity_threshold /\ ~m1.emergency_triggered
          THEN [trigger_emergency(m1) EXCEPT !.emergency_triggered = TRUE]
          ELSE m1
  ELSE reset_inactivity_tracking(m, now)

handle_inactivity_tracking(m, status, current_time, now) ==
  IF status # "Active"
  THEN LET m1 == IF m.inactive_start_time = None
                 THEN [m EXCEPT !.inactive_start_time = current_time]
                 ELSE m
           inactive_duration == current_time - m1.inactive_start_time
       IN IF inactive_duration >= inactivity_threshold /\ ~m1.emergency_triggered
          THEN [trigger_emergency(m1) EXCEPT !.emergency_triggered = TRUE]
          ELSE m1
  ELSE reset_inactivity_tracking(m, now)

\* now: time.time()
update_status(m, status, now) ==
  IF status # m.current_status
  THEN log_status_change([m EXCEPT !.current_status = status],
                         m.current_status, status, now)
  ELSE m

\* One frame.  faces: the faces the face mesh finds; num_faces: those the
\* multiple-face detector finds; detected: whether the presence detector finds
\* one; ear, mar: what the extractors return; current_time: time.time() at
\* line 291; now: time.time() as the callees read it.  The field path records
\* the branch taken.
process_frame(m, faces, num_faces, detected, ear, mar, current_time, now) ==
  LET multiple_faces_status == check_multiple_faces(num_faces)
  IN IF faces > 1 /\ multiple_faces_status # ""
     THEN LET m1 == update_status(m, multiple_faces_status, now)
              m2 == handle_inactivity_tracking(m1, "Multiple Faces", current_time, now)
          IN [m2 EXCEPT !.path = "multi"]
     ELSE IF faces = 0
     THEN LET r == check_face_presence(m, detected, now)
              m1 == handle_inactivity_tracking(r.state, r.status, current_time, now)
              m2 == update_status(m1, r.status, now)
          IN [m2 EXCEPT !.path = IF detected THEN "facefound" ELSE "noface"]
     ELSE LET r == determine_status_simple(m, ear, mar)
              m1 == IF r.status = "Active"
                    THEN reset_inactivity_tracking(r.state, now)
                    ELSE handle_inactivity_tracking(r.state, r.status, current_time, now)
              m2 == update_status(m1, r.status, now)
          IN [m2 EXCEPT !.path = "single"]

\* ------------------------------------------------ EyeTracker, YawnDetector
\* A ratio is the fraction <<n, d>> in lowest terms: Python's floats are
\* taken as exact.  A distance (np.linalg.norm of two landmarks) is counted in
\* tenths of the landmarks' unit.
RECURSIVE gcd(_, _)
gcd(a, b) == IF b = 0 THEN a ELSE gcd(b, a % b)

Ratio(n, d) == LET g == gcd(n, d) IN <<n \div g, d \div g>>

\* over the least common denominator
Plus(x, y) ==
  LET g == gcd(x[2], y[2])
  IN Ratio(x[1] * (y[2] \div g) + y[1] * (x[2] \div g), (x[2] \div g) * y[2])

Times(x, y) == Ratio(x[1] * y[1], x[2] * y[2])

Less(x, y) == x[1] * y[2] < y[1] * x[2]

RECURSIVE sum(_)
sum(history) ==
  IF history = <<>> THEN <<0, 1>> ELSE Plus(Head(history), sum(Tail(history)))

\* sum(history) / len(history)
mean(history) == Times(sum(history), <<1, Len(history)>>)

left_eye_points == <<33, 160, 158, 133, 153, 144>>
right_eye_points == <<362, 385, 387, 263, 373, 380>>
mouth_points == <<13, 14, 78, 308, 18, 175>>

\* The landmarks of a frame: how many there are (len) and, for each of the
\* three 6-point models, the two vertical distances and the horizontal one
\* that its points give (read only when the landmarks hold all six points).
Shape(v1, v2, h) == [v1 |-> v1, v2 |-> v2, h |-> h]

Face(len, left, right, mouth) ==
  [len |-> len, left |-> left, right |-> right, mouth |-> mouth]

NoLandmarks == Face(0, Shape(0, 0, 0), Shape(0, 0, 0), Shape(0, 0, 0))

\* head_pose_data: given is its truth value (None and {} are false)
HeadPose(pitch, yaw) == [given |-> TRUE, pitch |-> pitch, yaw |-> yaw]

NoHeadPose == [given |-> FALSE, pitch |-> 0, yaw |-> 0]

\* some point of the model is not among the landmarks
missing(lm, points) == \E i \in DOMAIN points : ~(points[i] < lm.len)

\* t: the fields of the EyeTracker, [ear_history, last_ear]
_calculate_single_eye_ear(t, lm, eye_points) ==
  IF missing(lm, eye_points) THEN <<1, 4>>
  ELSE LET eye_coords == IF eye_points = left_eye_points THEN lm.left ELSE lm.right
           vertical_dist1 == eye_coords.v1
           vertical_dist2 == eye_coords.v2
           horizontal_dist == eye_coords.h
       IN IF horizontal_dist > 5
          THEN LET ear == Ratio(vertical_dist1 + vertical_dist2, 2 * horizontal_dist)
               IN IF Less(<<1, 1>>, ear) THEN <<1, 1>> ELSE ear
          ELSE t.last_ear

_compensate_for_head_pose(ear, head_pose) ==
  LET pitch == head_pose.pitch
      yaw == head_pose.yaw
      ear1 == IF pitch > 10 THEN Times(ear, <<11, 10>>)
              ELSE IF pitch < -10 THEN Times(ear, <<19, 20>>)
              ELSE ear
  IN IF yaw > 20 \/ yaw < -20 THEN Times(ear1, <<21, 20>>) ELSE ear1

\* the value appended to the history: the mean of the two eyes, compensated
frame_ear(t, lm, head_pose) ==
  LET left_ear == _calculate_single_eye_ear(t, lm, left_eye_points)
      right_ear == _calculate_single_eye_ear(t, lm, right_eye_points)
      ear == Times(Plus(left_ear, right_ear), <<1, 2>>)
  IN IF head_pose.given THEN _compensate_for_head_pose(ear, head_pose) ELSE ear

\* fault: the newest value is dropped from a full history, not the oldest
calculate_ear_newest(t, lm, head_pose) ==
  LET appended == Append(t.ear_history, frame_ear(t, lm, head_pose))
      history == IF Len(appended) > 8 THEN SubSeq(appended, 1, 8) ELSE appended
      smoothed_ear == mean(history)
  IN [state |-> [ear_history |-> history, last_ear |-> smoothed_ear],
      value |-> smoothed_ear]

\* state: the fields after the call; value: what it returns
calculate_ear(t, lm, head_pose) ==
  LET appended == Append(t.ear_history, frame_ear(t, lm, head_pose))
      history == IF Len(appended) > 8 THEN Tail(appended) ELSE appended
      smoothed_ear == mean(history)
  IN [state |-> [ear_history |-> history, last_ear |-> smoothed_ear],
      value |-> smoothed_ear]

EyeTracker_reset_state(t) == [ear_history |-> <<>>, last_ear |-> <<3, 10>>]

\* y: the fields of the YawnDetector, [mar_history, last_mar]
calculate_mar(y, lm) ==
  IF missing(lm, mouth_points) THEN [state |-> y, value |-> y.last_mar]
  ELSE LET vertical_dist1 == lm.mouth.v1
           vertical_dist2 == lm.mouth.v2
           horizontal_dist == lm.mouth.h
           mar == IF horizontal_dist > 10
                  THEN Ratio(vertical_dist1 + vertical_dist2, 2 * horizontal_dist)
                  ELSE y.last_mar
           appended == Append(y.mar_history, mar)
           history == IF Len(appended) > 10 THEN Tail(appended) ELSE appended
           smoothed_mar == mean(history)
       IN [state |-> [mar_history |-> history, last_mar |-> smoothed_mar],
           value |-> smoothed_mar]

YawnDetector_reset_state(y) == [mar_history |-> <<>>, last_mar |-> <<0, 1>>]

\* the fields a handler works on, with nothing emitted yet
MonitorState ==
  [current_status |-> current_status,
   inactive_start_time |-> inactive_start_time,
   emergency_triggered |-> emergency_triggered,
   drowsy_counter |-> drowsy_counter, yawn_counter |-> yawn_counter,
   face_lost_time |-> face_lost_time,
   is_emergency_active |-> is_emergency_active,
   last_inactive_start |-> last_inactive_start,
   logged |-> <<>>, flashed |-> <<>>, path |-> path]

Store(m) ==
  /\ current_status' = m.current_status
  /\ inactive_start_time' = m.inactive_start_time
  /\ emergency_triggered' = m.emergency_triggered
  /\ drowsy_counter' = m.drowsy_counter
  /\ yawn_counter' = m.yawn_counter
  /\ face_lost_time' = m.face_lost_time
  /\ is_emergency_active' = m.is_emergency_active
  /\ last_inactive_start' = m.last_inactive_start
  /\ logged' = m.logged
  /\ flashed' = m.flashed
  /\ path' = m.path

\* the state after construction, the sound devices of EmergencyWakeup apart
Constructed ==
  /\ cap = "None"
  /\ timer_active = FALSE
  /\ detection_active = FALSE
  /\ current_status = "Inactive"
  /\ inactive_start_time = None
  /\ emergency_triggered = FALSE
  /\ drowsy_counter = 0
  /\ yawn_counter = 0
  /\ start_detection_btn = TRUE
  /\ stop_detection_btn = TRUE
  /\ face_lost_time = None
  /\ is_emergency_active = FALSE
  /\ last_inactive_start = None
  /\ clock = 0
  /\ logged = <<>>
  /\ flashed = <<>>
  /\ lastOp = "init"
  /\ path = "none"
  /\ faceCount = 0
  /\ frameTime = None
  /\ frameEar = 0
  /\ frameMar = 0
  /\ absentSince = None
  /\ drowsyRun = 0
  /\ yawnRun = 0
  /\ flash_timer = "None"
  /\ flash_count = 0
  /\ siren_thread = "None"
  /\ tts_thread = "None"
  /\ cleanup_calls = 0
  /\ started = {}
  /\ sounded = {}
  /\ lastFlash = "none"
  /\ tick_pending = FALSE
  /\ steps = <<>>
  /\ speech_queue = <<>>
  /\ is_speaking = FALSE
  /\ speech_data = <<>>
  /\ worker_pc = "get"
  /\ last_spoken_status = ""
  /\ last_speech_time = 0
  /\ call_status = ""
  /\ call_pending = FALSE
  /\ call_enqueued = FALSE
  /\ ear_history = <<>>
  /\ last_ear = <<3, 10>>
  /\ mar_history = <<>>
  /\ last_mar = <<0, 1>>
  /\ landmarks = NoLandmarks
  /\ head_pose_data = NoHeadPose
  /\ returned = <<0, 1>>
  /\ samples = <<>>
  /\ all_valid = TRUE
  /\ unusual = 0
  /\ log_file = [exists |-> TRUE, rows |-> <<>>]
  /\ write_ok = TRUE
  /\ finished = TRUE

\* both sound devices of EmergencyWakeup initialised
Init ==
  /\ Constructed
  /\ tts_engine = TRUE
  /\ siren_sound = TRUE

\* start_detection with the camera open, or opened by it (opened)
start_detection(opened) ==
  /\ start_detection_btn
  /\ cap = "Opened" \/ opened
  /\ cap' = "Opened"
  /\ timer_active' = (cap # "Opened" \/ timer_active)
  /\ detection_active' = TRUE
  /\ LET m0 == [MonitorState EXCEPT !.inactive_start_time = None,
                                    !.emergency_triggered = FALSE,
                                    !.drowsy_counter = 0, !.yawn_counter = 0,
                                    !.path = "none"]
         m1 == FacePresenceDetector_reset(m0)
         m2 == log_detection_session(reset_inactive_tracking(m1), "started")
     IN \E m \in {m2} : Store(m)
  /\ start_detection_btn' = FALSE
  /\ stop_detection_btn' = TRUE
  /\ lastOp' = "start"
  /\ faceCount' = 0
  /\ frameTime' = None
  /\ frameEar' = 0
  /\ frameMar' = 0
  /\ absentSince' = None
  /\ drowsyRun' = 0
  /\ yawnRun' = 0
  /\ UNCHANGED clock
  /\ UNCHANGED <<escalatorVars, closeVars, speechVars, extractorVars, loggerVars>>

\* start_detection when the camera cannot be opened: it returns early
start_detection_camera_error ==
  /\ start_detection_btn
  /\ cap # "Opened"
  /\ cap' = "Closed"
  /\ lastOp' = "start_failed"
  /\ logged' = <<>>
  /\ flashed' = <<>>
  /\ UNCHANGED <<timer_active, detection_active, current_status,
                 inactive_start_time, emergency_triggered,
                 drowsy_counter, yawn_counter, start_detection_btn,
                 stop_detection_btn, face_lost_time, is_emergency_active,
                 last_inactive_start, clock,
                 path, faceCount, frameTime, frameEar, frameMar, absentSince,
                 drowsyRun, yawnRun>>
  /\ UNCHANGED <<escalatorVars, closeVars, speechVars, extractorVars, loggerVars>>

\* dt: the time since the previous handler
stop_detection(dt) ==
  /\ stop_detection_btn
  /\ clock + dt <= MaxTime
  /\ detection_active' = FALSE
  /\ LET m1 == log_detection_session(MonitorState, "stopped")
         m2 == stop_emergency(m1)
         m3 == [m2 EXCEPT !.emergency_triggered = FALSE, !.path = "none"]
         m4 == update_status(m3, "Inactive", clock + dt)
     IN \E m \in {m4} : Store(m)
  /\ start_detection_btn' = TRUE
  /\ stop_detection_btn' = FALSE
  /\ lastOp' = "stop"
  /\ faceCount' = 0
  /\ frameTime' = None
  /\ frameEar' = 0
  /\ frameMar' = 0
  /\ absentSince' = None
  /\ drowsyRun' = 0
  /\ yawnRun' = 0
  /\ clock' = clock + dt
  /\ UNCHANGED <<cap, timer_active>>
  /\ UNCHANGED <<escalatorVars, closeVars, speechVars, extractorVars, loggerVars>>

\* update_frame on a timer tick that reads a frame while detection is active.
\* History kept beside the code's state:
\*   absentSince  the clock read of the first frame since start_detection, when
\*                that frame and every frame since found no face at all
\*                (None otherwise);
\*   drowsyRun    the number of frames, up to and including this one, that were
\*                all classified by determine_status_simple with EAR below the
\*                threshold, the first of them with drowsy_counter = 0 before it
\*                (0 when this frame is not such a frame);
\*   yawnRun      the same for EAR not below and MAR above its threshold, the
\*                first with yawn_counter = 0.
update_frame(dt, faces, num_faces, detected, ear, mar) ==
  /\ timer_active
  /\ cap = "Opened"
  /\ detection_active
  /\ clock + dt <= MaxTime
  /\ \E m \in {process_frame(MonitorState, faces, num_faces, detected, ear, mar,
                              clock + dt, clock + dt)} :
       LET low == m.path = "single" /\ ear < drowsy_ear_threshold
           yawn == m.path = "single" /\ ear >= drowsy_ear_threshold
                     /\ mar > yawn_mar_threshold
       IN /\ m.drowsy_counter <= MaxCount
          /\ m.yawn_counter <= MaxCount
          /\ Store(m)
          /\ frameEar' = IF m.path = "single" THEN ear ELSE 0
          /\ frameMar' = IF m.path = "single" THEN mar ELSE 0
          /\ absentSince' = IF m.path = "noface"
                            THEN (IF path = "none" THEN clock + dt ELSE absentSince)
                            ELSE None
          /\ drowsyRun' = IF ~low THEN 0
                          ELSE IF drowsyRun > 0 THEN drowsyRun + 1
                          ELSE IF drowsy_counter = 0 THEN 1 ELSE 0
          /\ yawnRun' = IF ~yawn THEN 0
                        ELSE IF yawnRun > 0 THEN yawnRun + 1
                        ELSE IF yawn_counter = 0 THEN 1 ELSE 0
  /\ clock' = clock + dt
  /\ frameTime' = clock + dt
  /\ faceCount' = faces
  /\ lastOp' = "frame"
  /\ UNCHANGED <<cap, timer_active, detection_active, start_detection_btn,
                 stop_detection_btn>>
  /\ UNCHANGED <<escalatorVars, closeVars, speechVars, extractorVars, loggerVars>>

\* What one frame can show.  An input that the frame's branch never reads is
\* held at one value: num_faces when the mesh finds at most one face, detected
\* unless it finds none, ear and mar when the single-face path is not reached.
FrameInputs ==
  {f \in [faces : 0..MaxFaces, num_faces : 1..MaxFaces, detected : BOOLEAN,
          ear : EarValues, mar : MarValues] :
     /\ f.faces <= 1 => f.num_faces = 1
     /\ f.faces # 0 => ~f.detected
     /\ (f.faces = 0 \/ (f.faces > 1 /\ f.num_faces > 1))
          => (f.ear = drowsy_ear_threshold /\ f.mar = yawn_mar_threshold)}

Next ==
  \/ \E opened \in BOOLEAN : start_detection(opened)
  \/ start_detection_camera_error
  \/ \E dt \in 0..MaxStep : stop_detection(dt)
  \/ \E dt \in 0..MaxStep, f \in FrameInputs :
       update_frame(dt, f.faces, f.num_faces, f.detected, f.ear, f.mar)

Spec == Init /\ [][Next]_vars

\* =================================================================== EscSpec
\* EmergencyWakeup on its own: trigger_emergency, stop_emergency and cleanup
\* called in any order from the GUI thread, the flash timer's timeouts, and
\* the steps of the siren thread and of the voice thread.
\*
\* A thread field is "None" (no Thread object yet), "loop" (the thread is
\* alive and the next thing it does is test `while self.is_emergency_active`;
\* it may be asleep in the loop body before that), "exit" (alive: it has left
\* the loop and not yet terminated) or "dead" (terminated).
is_alive(thread) == thread \in {"loop", "exit"}

\* the fields a call or a step works on, with nothing emitted yet
EscalatorState ==
  [is_emergency_active |-> is_emergency_active,
   flash_timer |-> flash_timer, flash_count |-> flash_count,
   siren_thread |-> siren_thread, tts_thread |-> tts_thread,
   tts_engine |-> tts_engine, siren_sound |-> siren_sound,
   flashed |-> <<>>, started |-> {}, sounded |-> {}]

StoreEscalator(e) ==
  /\ is_emergency_active' = e.is_emergency_active
  /\ flash_timer' = e.flash_timer
  /\ flash_count' = e.flash_count
  /\ siren_thread' = e.siren_thread
  /\ tts_thread' = e.tts_thread
  /\ tts_engine' = e.tts_engine
  /\ siren_sound' = e.siren_sound
  /\ flashed' = e.flashed
  /\ started' = e.started
  /\ sounded' = e.sounded

play_siren(e) ==
  IF is_alive(e.siren_thread) THEN e
  ELSE [e EXCEPT !.siren_thread = "loop", !.started = @ \cup {"siren"}]

\* fault: the loop never tests the flag
play_sound_deaf(e, ok) ==
  IF e.siren_thread = "exit" THEN [e EXCEPT !.siren_thread = "dead"]
  ELSE IF ~e.siren_sound THEN [e EXCEPT !.sounded = @ \cup {"beep"}]
  ELSE IF ok THEN [e EXCEPT !.sounded = @ \cup {"siren"}]
  ELSE [e EXCEPT !.siren_thread = "exit"]

\* One step of the siren thread: a test of the loop condition and, when it
\* holds, the body up to the end of its sleep; or, once the loop is left, the
\* end of the thread.  ok: playing the sound raises nothing.  Without a
\* siren sound the body rings the terminal bell.
play_sound(e, ok) ==
  IF e.siren_thread = "exit" THEN [e EXCEPT !.siren_thread = "dead"]
  ELSE IF ~e.is_emergency_active THEN [e EXCEPT !.siren_thread = "exit"]
  ELSE IF ~e.siren_sound THEN [e EXCEPT !.sounded = @ \cup {"beep"}]
  ELSE IF ok THEN [e EXCEPT !.sounded = @ \cup {"siren"}]
  ELSE [e EXCEPT !.siren_thread = "exit"]

start_screen_flash(e) ==
  [e EXCEPT !.flash_count = 0, !.flash_timer = "Running",
            !.started = @ \cup {"flash"}]

\* fault: flash_count is not advanced
flash_screen_nocount(e) ==
  IF ~e.is_emergency_active
  THEN [e EXCEPT !.flash_timer = "None"]
  ELSE [e EXCEPT !.flashed = Append(@, IF e.flash_count % 2 = 0 THEN "red" ELSE "blue")]

\* fault: the colours are emitted whether the emergency is active or not
flash_screen_unguarded(e) ==
  [e EXCEPT !.flashed = Append(@, IF e.flash_count % 2 = 0 THEN "red" ELSE "blue"),
            !.flash_count = @ + 1]

flash_screen(e) ==
  IF ~e.is_emergency_active
  THEN [e EXCEPT !.flash_timer = "None"]
  ELSE [e EXCEPT !.flashed = Append(@, IF e.flash_count % 2 = 0 THEN "red" ELSE "blue"),
                 !.flash_count = @ + 1]

speak_wake_up_message(e) ==
  IF is_alive(e.tts_thread) THEN e
  ELSE [e EXCEPT !.tts_thread = "loop", !.started = @ \cup {"tts"}]

\* One step of the voice thread, as play_sound.  ok: say and runAndWait raise
\* nothing (when they do, the loop is left by break).
speak(e, ok) ==
  IF e.tts_thread = "exit" THEN [e EXCEPT !.tts_thread = "dead"]
  ELSE IF ~e.is_emergency_active THEN [e EXCEPT !.tts_thread = "exit"]
  ELSE IF ~e.tts_engine THEN e
  ELSE IF ok THEN [e EXCEPT !.sounded = @ \cup {"voice"}]
  ELSE [e EXCEPT !.tts_thread = "exit"]

\* fault: no early return when the emergency is already active
Escalator_trigger_emergency_again(e) ==
  speak_wake_up_message(start_screen_flash(play_siren(
    [e EXCEPT !.is_emergency_active = TRUE, !.flash_count = 0])))

\* fault: nothing is started without both sound devices
Escalator_trigger_emergency_devices(e) ==
  IF e.is_emergency_active \/ ~e.tts_engine \/ ~e.siren_sound THEN e
  ELSE speak_wake_up_message(start_screen_flash(play_siren(
         [e EXCEPT !.is_emergency_active = TRUE, !.flash_count = 0])))

Escalator_trigger_emergency(e) ==
  IF e.is_emergency_active THEN e
  ELSE speak_wake_up_message(start_screen_flash(play_siren(
         [e EXCEPT !.is_emergency_active = TRUE, !.flash_count = 0])))

\* fault: no early return when the emergency is not active
Escalator_stop_emergency_always(e) ==
  [e EXCEPT !.is_emergency_active = FALSE, !.flash_timer = "None",
            !.flashed = Append(@, "normal")]

Escalator_stop_emergency(e) ==
  IF ~e.is_emergency_active THEN e
  ELSE [e EXCEPT !.is_emergency_active = FALSE, !.flash_timer = "None",
                 !.flashed = Append(@, "normal")]

\* fault: the joins have no timeout
cleanup_join_forever(e, siren_done, tts_done) ==
  LET e1 == Escalator_stop_emergency(e)
      e2 == IF is_alive(e1.siren_thread) /\ siren_done
            THEN [e1 EXCEPT !.siren_thread = "dead"] ELSE e1
      e3 == IF is_alive(e2.tts_thread) /\ tts_done
            THEN [e2 EXCEPT !.tts_thread = "dead"] ELSE e2
  IN [state |-> [e3 EXCEPT !.tts_engine = FALSE],
      returned |-> ~is_alive(e3.siren_thread) /\ ~is_alive(e3.tts_thread)]

\* siren_done, tts_done: the thread, if alive, terminates within the second
\* that join waits for it.  returned: the call returns.
cleanup(e, siren_done, tts_done) ==
  LET e1 == Escalator_stop_emergency(e)
      e2 == IF is_alive(e1.siren_thread) /\ siren_done
            THEN [e1 EXCEPT !.siren_thread = "dead"] ELSE e1
      e3 == IF is_alive(e2.tts_thread) /\ tts_done
            THEN [e2 EXCEPT !.tts_thread = "dead"] ELSE e2
  IN [state |-> [e3 EXCEPT !.tts_engine = FALSE], returned |-> TRUE]

\* the history of the colours: the step's colour if it emitted one, "none"
\* when the step moved the escalator from Idle to Active
FlashHistory ==
  lastFlash' =
    IF flashed' # <<>> /\ flashed'[Len(flashed')] # "normal"
    THEN flashed'[Len(flashed')]
    ELSE IF is_emergency_active' /\ ~is_emergency_active THEN "none"
    ELSE lastFlash

\* a step that stops a started flash timer may leave one timeout undelivered
TimerStopped ==
  tick_pending' \in IF flash_timer = "Running" /\ flash_timer' = "None"
                    THEN BOOLEAN ELSE {tick_pending}

\* what no step of EscSpec changes
EscalatorFrame ==
  UNCHANGED <<pipelineVars, clock, closeVars, speechVars, extractorVars,
              loggerVars>>

trigger_emergency_call ==
  /\ \E e \in {Escalator_trigger_emergency(EscalatorState)} : StoreEscalator(e)
  /\ lastOp' = "trigger_emergency"
  /\ FlashHistory
  /\ UNCHANGED <<cleanup_calls, tick_pending>>
  /\ EscalatorFrame

stop_emergency_call ==
  /\ \E e \in {Escalator_stop_emergency(EscalatorState)} : StoreEscalator(e)
  /\ lastOp' = "stop_emergency"
  /\ FlashHistory
  /\ TimerStopped
  /\ UNCHANGED cleanup_calls
  /\ EscalatorFrame

\* the flash timer's timeout, while the timer is started
flash_timer_timeout ==
  /\ flash_timer = "Running"
  /\ flash_count < MaxFlash
  /\ \E e \in {flash_screen(EscalatorState)} : StoreEscalator(e)
  /\ lastOp' = "flash_screen"
  /\ FlashHistory
  /\ UNCHANGED <<cleanup_calls, tick_pending>>
  /\ EscalatorFrame

\* a timeout that was pending when stop_emergency stopped the timer
flash_timer_late_timeout ==
  /\ tick_pending
  /\ flash_count < MaxFlash
  /\ \E e \in {flash_screen(EscalatorState)} : StoreEscalator(e)
  /\ lastOp' = "flash_screen"
  /\ FlashHistory
  /\ tick_pending' = FALSE
  /\ UNCHANGED cleanup_calls
  /\ EscalatorFrame

siren_thread_step(ok) ==
  /\ is_alive(siren_thread)
  /\ \E e \in {play_sound(EscalatorState, ok)} : StoreEscalator(e)
  /\ lastOp' = "play_sound"
  /\ UNCHANGED <<cleanup_calls, lastFlash, tick_pending>>
  /\ EscalatorFrame

tts_thread_step(ok) ==
  /\ is_alive(tts_thread)
  /\ \E e \in {speak(EscalatorState, ok)} : StoreEscalator(e)
  /\ lastOp' = "speak"
  /\ UNCHANGED <<cleanup_calls, lastFlash, tick_pending>>
  /\ EscalatorFrame

cleanup_call(siren_done, tts_done) ==
  /\ \E r \in {cleanup(EscalatorState, siren_done, tts_done)} :
       /\ r.returned
       /\ StoreEscalator(r.state)
  /\ lastOp' = "cleanup"
  /\ FlashHistory
  /\ TimerStopped
  /\ cleanup_calls' = IF cleanup_calls < MaxCleanups THEN cleanup_calls + 1
                      ELSE cleanup_calls
  /\ EscalatorFrame

EscNext ==
  \/ trigger_emergency_call
  \/ stop_emergency_call
  \/ flash_timer_timeout
  \/ flash_timer_late_timeout
  \/ \E ok \in BOOLEAN : siren_thread_step(ok)
  \/ \E ok \in BOOLEAN : tts_thread_step(ok)
  \/ \E siren_done \in BOOLEAN, tts_done \in BOOLEAN :
       cleanup_call(siren_done, tts_done)

\* __init__: the text-to-speech engine and the siren sound are each set or,
\* when their initialisation raises, None.  (A mixer that fails to initialise
\* leaves no siren sound: make_sound raises; pygame_initialized itself only
\* guards the mixer's stop and quit.)
EscInit ==
  /\ Constructed
  /\ tts_engine \in BOOLEAN
  /\ siren_sound \in BOOLEAN

EscSpec == EscInit /\ [][EscNext]_vars

\* The threads are daemon threads of the interpreter: one that can take a
\* step (its sleep ends, its call returns) is scheduled in the end.
EscLive ==
  /\ EscSpec
  /\ WF_vars(\E ok \in BOOLEAN : siren_thread_step(ok))
  /\ WF_vars(\E ok \in BOOLEAN : tts_thread_step(ok))

\* ================================================================= CloseSpec
\* Sessions of frames without a face (which bring the status from Active to
\* Not Awake and trigger the emergency), ended by closing the application.
\*
\* The calls of close_application that are wrapped in try/except and may
\* raise; fail is the set of those that do (a call that raises has no effect).
CloseCalls == {"stop_emergency", "timer.stop", "cap.release", "cleanup"}

\* the fields close_application works on, with nothing done yet
CloseState ==
  [detection_active |-> detection_active, timer_active |-> timer_active,
   cap |-> cap, m |-> MonitorState, steps |-> <<>>]

\* one run of close_application up to self.close().  Of the effects of
\* EmergencyWakeup.cleanup, CloseSpec keeps the one of its stop_emergency.
close_application(c, fail) ==
  LET c1 == IF c.detection_active
            THEN LET m1 == log_detection_session(c.m, "stopped")
                     m2 == IF "stop_emergency" \in fail THEN m1
                           ELSE stop_emergency(m1)
                 IN [c EXCEPT
                       !.detection_active = FALSE,
                       !.m = [m2 EXCEPT !.emergency_triggered = FALSE],
                       !.steps = @ \o <<"detection_active = False", "log_event",
                                        IF "stop_emergency" \in fail
                                        THEN "stop_emergency raised"
                                        ELSE "stop_emergency">>]
            ELSE c
      c2 == IF ~c1.timer_active THEN c1
            ELSE IF "timer.stop" \in fail
            THEN [c1 EXCEPT !.steps = Append(@, "timer.stop raised")]
            ELSE [c1 EXCEPT !.timer_active = FALSE,
                            !.steps = Append(@, "timer.stop")]
      c3 == IF c2.cap # "Opened" THEN c2
            ELSE IF "cap.release" \in fail
            THEN [c2 EXCEPT !.steps = Append(@, "cap.release raised")]
            ELSE [c2 EXCEPT !.cap = "Closed",
                            !.steps = Append(@, "cap.release")]
  IN IF "cleanup" \in fail
     THEN [c3 EXCEPT !.steps = Append(@, "cleanup raised")]
     ELSE [c3 EXCEPT !.m = stop_emergency(@),
                     !.steps = Append(@, "cleanup")]

StoreClose(c) ==
  /\ detection_active' = c.detection_active
  /\ timer_active' = c.timer_active
  /\ cap' = c.cap
  /\ steps' = c.steps
  /\ Store(c.m)

\* the window is closed: no handler runs any more
Closed == lastOp \in {"exit_btn", "closeEvent"}

\* what a close leaves alone
CloseFrame ==
  UNCHANGED <<start_detection_btn, stop_detection_btn, clock, faceCount,
              frameTime, frameEar, frameMar, absentSince, drowsyRun, yawnRun,
              escalatorVars, speechVars, extractorVars, loggerVars>>

\* The Exit button: close_application, whose self.close() sends the close
\* event, whose handler runs close_application once more (its self.close()
\* then returns at once).
exit_btn_clicked(fail) ==
  /\ ~Closed
  /\ \E c \in {close_application(close_application(CloseState, fail), fail)} :
       StoreClose(c)
  /\ lastOp' = "exit_btn"
  /\ CloseFrame

\* the window's own close button: the close event alone
closeEvent(fail) ==
  /\ ~Closed
  /\ \E c \in {close_application(CloseState, fail)} : StoreClose(c)
  /\ lastOp' = "closeEvent"
  /\ CloseFrame

session_start == ~Closed /\ \E opened \in BOOLEAN : start_detection(opened)

session_stop == ~Closed /\ \E dt \in 0..MaxStep : stop_detection(dt)

\* a frame in which neither the face mesh nor the presence detector finds a face
session_frame ==
  /\ ~Closed
  /\ \E dt \in 0..MaxStep :
       update_frame(dt, 0, 1, FALSE, drowsy_ear_threshold, yawn_mar_threshold)

CloseNext ==
  \/ session_start
  \/ session_stop
  \/ session_frame
  \/ \E fail \in SUBSET CloseCalls : exit_btn_clicked(fail)
  \/ \E fail \in SUBSET CloseCalls : closeEvent(fail)

CloseSpec == Init /\ [][CloseNext]_vars

\* ================================================================ SpeechSpec
\* AIFeedback: speak_status called from the GUI thread with any of
\* SpokenStatuses, and the consumer thread _speech_worker.
critical_statuses == {"Emergency", "Not Awake", "Fake Presence", "Drowsy"}

\* the statuses spoken here: one critical, two that are not
SpokenStatuses == {"Drowsy", "Yawning", "Active"}

\* the fields speak_status works on
SpeechState ==
  [speech_queue |-> speech_queue, is_speaking |-> is_speaking,
   last_spoken_status |-> last_spoken_status,
   last_speech_time |-> last_speech_time]

\* faulty variant: the pending messages stay in the queue
_clear_speech_queue_keep(s) == s

_clear_speech_queue(s) == [s EXCEPT !.speech_queue = <<>>]

\* faulty variant: no minimum interval between two equal statuses
speak_status_nothrottle(s, status, current_time) ==
  IF s.is_speaking /\ status \notin critical_statuses
  THEN s
  ELSE LET priority == IF status \in critical_statuses THEN "high" ELSE "normal"
           s1 == IF priority = "high" THEN _clear_speech_queue(s) ELSE s
       IN [s1 EXCEPT !.speech_queue = Append(@, [status |-> status,
                                                 priority |-> priority]),
                     !.last_spoken_status = status,
                     !.last_speech_time = current_time]

\* a message is the status it was chosen for and its priority
speak_status(s, status, current_time) ==
  IF /\ s.last_spoken_status = status
     /\ current_time - s.last_speech_time < min_speech_interval
  THEN s
  ELSE IF s.is_speaking /\ status \notin critical_statuses
  THEN s
  ELSE LET priority == IF status \in critical_statuses THEN "high" ELSE "normal"
           s1 == IF priority = "high" THEN _clear_speech_queue(s) ELSE s
       IN [s1 EXCEPT !.speech_queue = Append(@, [status |-> status,
                                                 priority |-> priority]),
                     !.last_spoken_status = status,
                     !.last_speech_time = current_time]

\* a high-priority message is in the queue or in the consumer's hands
HighPending ==
  \/ \E i \in DOMAIN speech_queue : speech_queue[i].priority = "high"
  \/ \E i \in DOMAIN speech_data : speech_data[i].priority = "high"

\* what no step of SpeechSpec changes
SpeechFrame ==
  UNCHANGED <<pipelineVars, is_emergency_active, flashed, escalatorVars,
              closeVars, extractorVars, loggerVars>>

\* dt: the time since the previous call.  A call that enqueues its message
\* also writes last_spoken_status or last_speech_time; one that returns early
\* writes nothing.
speak_status_call(dt, status) ==
  /\ clock + dt <= MaxTime
  /\ \E s \in {speak_status(SpeechState, status, clock + dt)} :
       /\ Len(s.speech_queue) <= MaxQueue
       /\ speech_queue' = s.speech_queue
       /\ is_speaking' = s.is_speaking
       /\ last_spoken_status' = s.last_spoken_status
       /\ last_speech_time' = s.last_speech_time
       /\ call_enqueued' = (s # SpeechState)
  /\ call_status' = status
  /\ call_pending' = HighPending
  /\ clock' = clock + dt
  /\ lastOp' = "speak_status"
  /\ UNCHANGED <<speech_data, worker_pc>>
  /\ SpeechFrame

\* _speech_worker: speech_queue.get returns a message
speech_worker_get ==
  /\ worker_pc = "get"
  /\ speech_queue # <<>>
  /\ speech_data' = <<Head(speech_queue)>>
  /\ speech_queue' = Tail(speech_queue)
  /\ worker_pc' = "got"
  /\ lastOp' = "worker_get"
  /\ UNCHANGED <<is_speaking, last_spoken_status, last_speech_time,
                 call_status, call_pending, call_enqueued, clock>>
  /\ SpeechFrame

\* _speech_worker: is_speaking = True, before the message is spoken (the
\* engine's stop() for a high-priority message acts on the sound device only)
speech_worker_say ==
  /\ worker_pc = "got"
  /\ is_speaking' = TRUE
  /\ worker_pc' = "speaking"
  /\ lastOp' = "worker_say"
  /\ UNCHANGED <<speech_queue, speech_data, last_spoken_status,
                 last_speech_time, call_status, call_pending, call_enqueued,
                 clock>>
  /\ SpeechFrame

\* _speech_worker: runAndWait returns or raises; is_speaking = False either way
speech_worker_done ==
  /\ worker_pc = "speaking"
  /\ is_speaking' = FALSE
  /\ speech_data' = <<>>
  /\ worker_pc' = "get"
  /\ lastOp' = "worker_done"
  /\ UNCHANGED <<speech_queue, last_spoken_status, last_speech_time,
                 call_status, call_pending, call_enqueued, clock>>
  /\ SpeechFrame

SpeechNext ==
  \/ \E dt \in 0..MaxStep, status \in SpokenStatuses : speak_status_call(dt, status)
  \/ speech_worker_get
  \/ speech_worker_say
  \/ speech_worker_done

SpeechSpec == Init /\ [][SpeechNext]_vars

\* =============================================================== ExtractSpec
\* calculate_ear and calculate_mar, called frame after frame.  The two
\* extractors share no field: a run follows one of them.
\*
\* The face at rest, in tenths: the eyes open (ratio 0.2), the mouth closed
\* (ratio 0.1), all 468 landmarks of the face mesh.
RestingEye == Shape(20, 20, 100)

RestingMouth == Shape(10, 10, 100)

Resting == Face(468, RestingEye, RestingEye, RestingMouth)

\* the other shapes of an eye: wide (1.5 before the clamp), and two with next
\* to no width, 0.5 and 0.4 across
EyeShapes == {RestingEye, Shape(150, 150, 100), Shape(2, 2, 5), Shape(2, 2, 4)}

\* the other shapes of a mouth: open (0.7), and 1.0 and 0.9 across
MouthShapes == {RestingMouth, Shape(70, 70, 100), Shape(7, 7, 10), Shape(7, 7, 9)}

\* The frames: both eyes of one shape, or too few landmarks for the model
\* (160 for the eyes, 300 for the mouth).
EarFrames ==
  {Face(468, s, s, RestingMouth) : s \in EyeShapes}
    \cup {Face(160, RestingEye, RestingEye, RestingMouth)}

MarFrames ==
  {Face(468, RestingEye, RestingEye, s) : s \in MouthShapes}
    \cup {Face(300, RestingEye, RestingEye, RestingMouth)}

\* no head pose (as the frame pipeline calls calculate_ear), looking up and
\* aside, looking down
HeadPoses == {NoHeadPose, HeadPose(15, 25), HeadPose(-15, 0)}

EyeState == [ear_history |-> ear_history, last_ear |-> last_ear]

YawnState == [mar_history |-> mar_history, last_mar |-> last_mar]

\* the frame gives a ratio of its own: all points present, and wide enough
measured_eyes(lm) ==
  /\ ~missing(lm, left_eye_points) /\ lm.left.h > 5
  /\ ~missing(lm, right_eye_points) /\ lm.right.h > 5

measured_mouth(lm) == ~missing(lm, mouth_points) /\ lm.mouth.h > 10

\* the calls of calculate_ear: head-pose data comes with a measured frame
EarCalls ==
  {c \in EarFrames \X HeadPoses : c[2].given => measured_eyes(c[1])}

\* what no step of ExtractSpec changes
ExtractFrame ==
  UNCHANGED <<pipelineVars, is_emergency_active, flashed, clock, escalatorVars,
              closeVars, speechVars, loggerVars>>

\* the history variables of a call: valid, the frame is a measured one, of
\* ratio sample; odd, the call counts against MaxUnusual
Recorded(valid, sample, odd, bound) ==
  /\ Len(samples) + unusual < bound + MaxUnusual
  /\ valid => Len(samples) < bound
  /\ odd => unusual < MaxUnusual
  /\ samples' = IF valid THEN Append(samples, sample) ELSE samples
  /\ all_valid' = (all_valid /\ valid)
  /\ unusual' = IF odd THEN unusual + 1 ELSE unusual

calculate_ear_call(lm, head_pose) ==
  /\ lastOp \in {"init", "calculate_ear", "EyeTracker.reset_state"}
  /\ Recorded(measured_eyes(lm), frame_ear(EyeState, lm, head_pose),
              lm # Resting \/ head_pose.given, MaxEarSamples)
  /\ \E r \in {calculate_ear(EyeState, lm, head_pose)} :
       /\ ear_history' = r.state.ear_history
       /\ last_ear' = r.state.last_ear
       /\ returned' = r.value
  /\ landmarks' = lm
  /\ head_pose_data' = head_pose
  /\ lastOp' = "calculate_ear"
  /\ UNCHANGED <<mar_history, last_mar>>
  /\ ExtractFrame

\* the observation of the latest call is cleared with the history
EyeTracker_reset_state_call ==
  /\ lastOp = "calculate_ear"
  /\ \E t \in {EyeTracker_reset_state(EyeState)} :
       /\ ear_history' = t.ear_history
       /\ last_ear' = t.last_ear
  /\ samples' = <<>>
  /\ all_valid' = TRUE
  /\ landmarks' = NoLandmarks
  /\ head_pose_data' = NoHeadPose
  /\ returned' = <<0, 1>>
  /\ lastOp' = "EyeTracker.reset_state"
  /\ UNCHANGED <<mar_history, last_mar, unusual>>
  /\ ExtractFrame

calculate_mar_call(lm) ==
  /\ lastOp \in {"init", "calculate_mar", "YawnDetector.reset_state"}
  /\ Recorded(measured_mouth(lm), Ratio(lm.mouth.v1 + lm.mouth.v2, 2 * lm.mouth.h),
              lm # Resting, MaxMarSamples)
  /\ \E r \in {calculate_mar(YawnState, lm)} :
       /\ mar_history' = r.state.mar_history
       /\ last_mar' = r.state.last_mar
       /\ returned' = r.value
  /\ landmarks' = lm
  /\ lastOp' = "calculate_mar"
  /\ UNCHANGED <<ear_history, last_ear, head_pose_data>>
  /\ ExtractFrame

YawnDetector_reset_state_call ==
  /\ lastOp = "calculate_mar"
  /\ \E y \in {YawnDetector_reset_state(YawnState)} :
       /\ mar_history' = y.mar_history
       /\ last_mar' = y.last_mar
  /\ samples' = <<>>
  /\ all_valid' = TRUE
  /\ landmarks' = NoLandmarks
  /\ returned' = <<0, 1>>
  /\ lastOp' = "YawnDetector.reset_state"
  /\ UNCHANGED <<ear_history, last_ear, head_pose_data, unusual>>
  /\ ExtractFrame

ExtractNext ==
  \/ \E c \in EarCalls : calculate_ear_call(c[1], c[2])
  \/ EyeTracker_reset_state_call
  \/ \E lm \in MarFrames : calculate_mar_call(lm)
  \/ YawnDetector_reset_state_call

ExtractSpec == Init /\ [][ExtractNext]_vars

\* =================================================================== LogSpec
\* The log file of ActivityLogger: f is [exists, rows], the rows those after
\* the header.  update_status is called with any status at any time, the
\* append failing or not; clear_logs is called at any time.
\*
\* fault: no try/except around the append
ActivityLogger_log_event_raise(f, row, ok) ==
  [file |-> IF ok THEN [f EXCEPT !.rows = Append(@, row)] ELSE f,
   raised |-> ~ok]

\* log_event with the file: ok, opening the file and writing the row raise
\* nothing.  raised: an exception leaves the call.
ActivityLogger_log_event(f, row, ok) ==
  [file |-> IF ok THEN [f EXCEPT !.rows = Append(@, row)] ELSE f,
   raised |-> FALSE]

initialize_log_file(f) ==
  IF ~f.exists THEN [exists |-> TRUE, rows |-> <<>>] ELSE f

\* l: the logger, [file, last_inactive_start]
clear_logs(l) ==
  [file |-> initialize_log_file(l.file), last_inactive_start |-> None]

\* update_status of the window, the row that log_status_change hands to
\* log_event written to the file.  finished: the handler reaches its end (the
\* call of speak_status).
AttentivenessMonitor_update_status(m, f, status, now, ok) ==
  IF status = m.current_status
  THEN [monitor |-> m, file |-> f, finished |-> TRUE]
  ELSE LET m1 == update_status(m, status, now)
           w == ActivityLogger_log_event(f, m1.logged[Len(m1.logged)], ok)
       IN [monitor |-> m1, file |-> w.file, finished |-> ~w.raised]

\* the statuses update_status is called with
LogStatuses == {"Active", "Drowsy", "Not Awake"}

\* what no step of LogSpec changes
LogFrame ==
  UNCHANGED <<cap, timer_active, detection_active, start_detection_btn,
              stop_detection_btn, faceCount, frameTime, frameEar, frameMar,
              absentSince, drowsyRun, yawnRun, escalatorVars, closeVars,
              speechVars, extractorVars>>

update_status_call(status, dt, ok) ==
  /\ clock + dt <= MaxLogTime
  /\ \E r \in {AttentivenessMonitor_update_status(MonitorState, log_file, status,
                                                  clock + dt, ok)} :
       /\ Len(r.file.rows) <= MaxRows
       /\ Store(r.monitor)
       /\ log_file' = r.file
       /\ finished' = r.finished
  /\ write_ok' = ok
  /\ clock' = clock + dt
  /\ lastOp' = "update_status"
  /\ LogFrame

clear_logs_call ==
  /\ \E l \in {clear_logs([file |-> log_file,
                           last_inactive_start |-> last_inactive_start])} :
       /\ log_file' = l.file
       /\ last_inactive_start' = l.last_inactive_start
  /\ logged' = <<>>
  /\ write_ok' = TRUE
  /\ finished' = TRUE
  /\ lastOp' = "clear_logs"
  /\ UNCHANGED <<current_status, inactive_start_time, emergency_triggered,
                 drowsy_counter, yawn_counter, face_lost_time,
                 is_emergency_active, flashed, path, clock>>
  /\ LogFrame

LogNext ==
  \/ \E status \in LogStatuses, dt \in 0..MaxStep, ok \in BOOLEAN :
       update_status_call(status, dt, ok)
  \/ clear_logs_call

LogSpec == Init /\ [][LogNext]_vars

\* ------------------------------------------------------------------------
\* IdleSpec: sessions of drowsy and face-less frames, with the ticks of the
\* frame timer that arrive while detection is stopped.  start_detection
\* starts the timer and stop_detection leaves it running, so update_frame
\* keeps being called between two sessions.

\* fault: the frame is processed whether detection is active or not
classify_frame_always(m, detection, current_time) ==
  process_frame(m, 0, 1, FALSE, drowsy_ear_threshold, yawn_mar_threshold,
                current_time, current_time)

\* update_frame, lines 273-274, on a frame without a face: process_frame runs
\* only if detection_active
classify_frame(m, detection, current_time) ==
  IF detection
  THEN process_frame(m, 0, 1, FALSE, drowsy_ear_threshold, yawn_mar_threshold,
                     current_time, current_time)
  ELSE m

\* update_frame on a timer tick that reads a frame while detection is stopped:
\* the frame is displayed
update_frame_stopped(dt) ==
  /\ timer_active
  /\ cap = "Opened"
  /\ ~detection_active
  /\ clock + dt <= MaxTime
  /\ \E m \in {classify_frame(MonitorState, detection_active, clock + dt)} :
       Store(m)
  /\ clock' = clock + dt
  /\ lastOp' = "display"
  /\ UNCHANGED <<cap, timer_active, detection_active, start_detection_btn,
                 stop_detection_btn, faceCount, frameTime, frameEar, frameMar,
                 absentSince, drowsyRun, yawnRun>>
  /\ UNCHANGED <<escalatorVars, closeVars, speechVars, extractorVars, loggerVars>>

\* the frames of these sessions: no face found at all, or one face with the
\* eyes closed
IdleFrames ==
  {f \in FrameInputs :
     \/ f.faces = 0 /\ ~f.detected
     \/ f.faces = 1 /\ f.ear < drowsy_ear_threshold /\ f.mar = yawn_mar_threshold}

IdleNext ==
  \/ \E opened \in BOOLEAN : start_detection(opened)
  \/ \E dt \in 0..MaxStep : stop_detection(dt)
  \/ \E dt \in 0..MaxStep, f \in IdleFrames :
       update_frame(dt, f.faces, f.num_faces, f.detected, f.ear, f.mar)
  \/ \E dt \in 0..MaxStep : update_frame_stopped(dt)

IdleSpec == Init /\ [][IdleNext]_vars

\* ------------------------------------------------------------------ claims
\* the state is the one a processed frame left
AfterFrame == lastOp = "frame"

\* the latest handler called AttentivenessMonitor.trigger_emergency
EmergencyLogged == \E i \in DOMAIN logged : logged[i].status = "Emergency"

\* C1: after every processed frame in which the face mesh finds at least one
\* face, the presence detector's absence timer face_lost_time is None.
C1_TimerNullWhenFacePresent ==
  (AfterFrame /\ faceCount >= 1) => face_lost_time = None

\* C2: every processed frame in which the face mesh finds more than one face
\* yields Multiple Persons Detected in that frame, and takes neither the
\* face-presence path nor the single-face classifier.
C2_MultipleFacesSameFrame ==
  (AfterFrame /\ faceCount > 1)
    => (current_status = "Multiple Persons Detected" /\ path = "multi")

\* C3: a processed frame triggers the emergency exactly when the window is open
\* with elapsed = current_time - inactive_start_time >= inactivity_threshold and
\* no earlier frame of the same window had reached the threshold: once per
\* window, on the first frame at or over the threshold.
C3_TriggerOncePerWindow ==
  [][ lastOp' = "frame" =>
        ( EmergencyLogged'
          <=> ( /\ inactive_start_time' # None
                /\ frameTime' - inactive_start_time' >= inactivity_threshold
                /\ ~ ( /\ path # "none"
                       /\ inactive_start_time # None
                       /\ inactive_start_time' = inactive_start_time
                       /\ frameTime - inactive_start_time >= inactivity_threshold ) ) )
    ]_vars

\* a frame that triggers the emergency, the window open for 5 s or more
C3_Witness ==
  /\ AfterFrame
  /\ EmergencyLogged
  /\ inactive_start_time # None
  /\ frameTime - inactive_start_time >= inactivity_threshold
  /\ is_emergency_active

\* C4: after a processed frame whose status is Active the window is closed,
\* emergency_triggered is false and the escalator is idle.
C4_ActiveFrameClosesWindow ==
  (AfterFrame /\ current_status = "Active")
    => ( /\ inactive_start_time = None
         /\ ~emergency_triggered
         /\ ~is_emergency_active )

\* one Active frame that stopped a running emergency
C4_Witness ==
  /\ AfterFrame
  /\ current_status = "Active"
  /\ flashed = <<"normal">>
  /\ ~is_emergency_active

\* C5: after every processed frame, inactive_start_time is None exactly when
\* the frame's status is Active.
C5_WindowClosedIffActive ==
  AfterFrame => (inactive_start_time = None <=> current_status = "Active")

\* a non-Active frame later than the one that opened the window
C5_Witness ==
  /\ AfterFrame
  /\ current_status # "Active"
  /\ inactive_start_time # None
  /\ inactive_start_time < frameTime

\* C6: after start_detection succeeds and after stop_detection, the window is
\* closed and emergency_triggered is false.
C6_SessionResetsWindow ==
  lastOp \in {"start", "stop"}
    => (inactive_start_time = None /\ ~emergency_triggered)

\* the status the claim gives an absence that has lasted elapsed seconds
AbsenceStatus(elapsed) ==
  IF elapsed < short_absence_threshold THEN "Active"
  ELSE IF elapsed < long_absence_threshold THEN "Inactive (Face Missing)"
  ELSE "Not Awake"

AbsenceRank(status) ==
  IF status = "Active" THEN 0
  ELSE IF status = "Inactive (Face Missing)" THEN 1
  ELSE IF status = "Not Awake" THEN 2
  ELSE 3

C9_DrowsyOnFifthFrame ==
  (AfterFrame /\ drowsyRun > 0)
    => current_status = (IF drowsyRun >= drowsy_threshold THEN "Drowsy" ELSE "Active")

\* the frame after the one that turned the status to Drowsy
C9_Witness ==
  /\ AfterFrame
  /\ drowsyRun = drowsy_threshold + 1
  /\ current_status = "Drowsy"

\* C10: on the n-th of consecutive single-face frames with EAR >= 0.22 and
\* MAR > 0.6, the first of them starting from yawn_counter = 0, the status is
\* Active for n < 3 and Yawning from n = 3; a single-face frame with
\* EAR >= 0.22 and MAR <= 0.6 leaves both counters 0 and the status Active.
C10_YawningOnThirdFrame ==
  /\ (AfterFrame /\ yawnRun > 0)
       => current_status = (IF yawnRun >= yawn_threshold THEN "Yawning" ELSE "Active")
  /\ (AfterFrame /\ path = "single" /\ frameEar >= drowsy_ear_threshold
        /\ frameMar <= yawn_mar_threshold)
       => (drowsy_counter = 0 /\ yawn_counter = 0 /\ current_status = "Active")

\* the third yawning frame in a row
C10_Witness ==
  /\ AfterFrame
  /\ yawnRun = yawn_threshold
  /\ current_status = "Yawning"

\* C11: after every frame classified by determine_status_simple at most one
\* of drowsy_counter and yawn_counter is non-zero: a frame with EAR < 0.22
\* counts in drowsy_counter and leaves yawn_counter 0 (also when MAR > 0.6),
\* a frame with EAR >= 0.22 and MAR > 0.6 counts in yawn_counter and leaves
\* drowsy_counter 0.
C11_CountersExclusive ==
  (AfterFrame /\ path = "single")
    => ( /\ ~(drowsy_counter > 0 /\ yawn_counter > 0)
         /\ frameEar < drowsy_ear_threshold
              => (drowsy_counter > 0 /\ yawn_counter = 0)
         /\ (frameEar >= drowsy_ear_threshold /\ frameMar > yawn_mar_threshold)
              => (yawn_counter > 0 /\ drowsy_counter = 0) )

\* a frame with EAR below and MAR above its threshold, after frames that
\* counted in drowsy_counter
C11_Witness ==
  /\ AfterFrame
  /\ path = "single"
  /\ frameEar < drowsy_ear_threshold
  /\ frameMar > yawn_mar_threshold
  /\ drowsy_counter > 1
  /\ yawn_counter = 0

\* the statuses a processed frame can give
FrameStatuses ==
  {"Active", "Drowsy", "Yawning", "Inactive (Face Missing)", "Not Awake",
   "Multiple Persons Detected"}

\* the rows of the latest handler that log_status_change wrote
StatusChangeRows == {i \in DOMAIN logged : logged[i].description = "Status changed"}

\* C12: after every processed frame the current status is one of the six
\* statuses Active, Drowsy, Yawning, Inactive (Face Missing), Not Awake and
\* Multiple Persons Detected, and the frame changed the status at most once,
\* to that status.
C12_OneOfSixStatuses ==
  AfterFrame
    => ( /\ current_status \in FrameStatuses
         /\ Cardinality(StatusChangeRows) <= 1
         /\ \A i \in StatusChangeRows : logged[i].status = current_status )

\* a frame that changed the status to Not Awake
C12_Witness ==
  /\ AfterFrame
  /\ current_status = "Not Awake"
  /\ StatusChangeRows # {}

\* the rows of log_inactive_to_active_transition among rows
ReturnedRows(rows) ==
  {i \in DOMAIN rows : rows[i].description = "User returned to active state"}

\* C13: a processed frame logs "User returned to active state" exactly when
\* its status is Active and the frame before it, in the same session, had a
\* status other than Active; it logs it once, with the duration from the
\* window's inactive_start_time to this frame.  An Active frame after an Active
\* frame and the first frame of a session log none.
C13_ReturnedOncePerRun ==
  [][ lastOp' = "frame" =>
        IF lastOp = "frame" /\ current_status # "Active" /\ current_status' = "Active"
        THEN /\ Cardinality(ReturnedRows(logged')) = 1
             /\ inactive_start_time # None
             /\ \A i \in ReturnedRows(logged') :
                  logged'[i].inactive_duration = frameTime' - inactive_start_time
        ELSE ReturnedRows(logged') = {}
    ]_vars

\* an Active frame that ends a run of non-Active frames two seconds long
C13_Witness ==
  /\ AfterFrame
  /\ current_status = "Active"
  /\ \E i \in ReturnedRows(logged) : logged[i].inactive_duration = 2

\* the fields of EmergencyWakeup
EscalatorFields ==
  <<is_emergency_active, flash_timer, flash_count, siren_thread, tts_thread,
    tts_engine>>

\* C14: whenever the escalator is active, the siren thread and the voice
\* thread are both in their loops (alive, and going to test the flag and alert
\* again), whatever the order of trigger_emergency, stop_emergency and the
\* threads' steps.
C14_LoopsRunWhileActive ==
  is_emergency_active => (siren_thread = "loop" /\ tts_thread = "loop")

\* C15: stop_emergency called while the escalator is not active changes no
\* field of the escalator and emits no flash signal; a stop_emergency that
\* follows a stop_emergency is such a call.
C15_StopWhileIdleNoOp ==
  /\ [][ (lastOp' = "stop_emergency" /\ ~is_emergency_active)
           => (UNCHANGED EscalatorFields /\ flashed' = <<>> /\ started' = {})
       ]_vars
  /\ [][ (lastOp = "stop_emergency" /\ lastOp' = "stop_emergency")
           => (UNCHANGED EscalatorFields /\ flashed' = <<>>)
       ]_vars

\* a stop_emergency that found the escalator idle, a thread of an earlier
\* emergency still alive
C15_Witness ==
  /\ lastOp = "stop_emergency"
  /\ flashed = <<>>
  /\ ~is_emergency_active
  /\ is_alive(siren_thread)

\* C16: trigger_emergency called while the escalator is active changes no
\* field of the escalator: it starts no siren thread, no voice thread and no
\* flash timer, and flash_count keeps its value.
C16_TriggerWhileActiveNoOp ==
  [][ (lastOp' = "trigger_emergency" /\ is_emergency_active)
        => (UNCHANGED EscalatorFields /\ started' = {} /\ flashed' = <<>>)
    ]_vars

\* a trigger_emergency that started nothing, after the screen has flashed
C16_Witness ==
  /\ lastOp = "trigger_emergency"
  /\ started = {}
  /\ is_emergency_active
  /\ flash_timer = "Running"
  /\ flash_count > 0

\* C17: a siren or voice loop that tests the flag while the escalator is not
\* active issues no alert and leaves its loop; and whenever the escalator is
\* not active, in the end it is triggered again or neither thread is alive.
C17_LoopsEndAfterStop ==
  /\ [][ (lastOp' = "play_sound" /\ siren_thread = "loop" /\ ~is_emergency_active)
           => (siren_thread' = "exit" /\ sounded' = {}) ]_vars
  /\ [][ (lastOp' = "speak" /\ tts_thread = "loop" /\ ~is_emergency_active)
           => (tts_thread' = "exit" /\ sounded' = {}) ]_vars
  /\ [] ( ~is_emergency_active
            => <> ( \/ is_emergency_active
                    \/ (~is_alive(siren_thread) /\ ~is_alive(tts_thread)) ) )

\* both loops have ended after a stop, the later of them just now
C17_Witness ==
  /\ ~is_emergency_active
  /\ siren_thread = "dead"
  /\ tts_thread = "dead"
  /\ lastOp \in {"play_sound", "speak"}
  /\ cleanup_calls = 0

\* C18: cleanup returns in every state, also when neither thread terminates
\* while it is joined; after it the escalator is not active, has no flash
\* timer and no TTS engine.  This holds for every call, a repeated one too.
C18_CleanupReturnsIdle ==
  /\ ENABLED cleanup_call(FALSE, FALSE)
  /\ lastOp = "cleanup"
       => (~is_emergency_active /\ flash_timer = "None" /\ ~tts_engine)

\* a second cleanup, both joins timed out
C18_Witness ==
  /\ lastOp = "cleanup"
  /\ cleanup_calls = 2
  /\ is_alive(siren_thread)
  /\ is_alive(tts_thread)

\* the places in steps of the entries in names
StepsAt(names) == {i \in DOMAIN steps : steps[i] \in names}

\* C19: a close that finds detection active stops the frame loop (the
\* detection flag or the frame timer), after that stops the escalator, and
\* after that writes to the log; and it reaches the escalator's cleanup
\* whichever of its calls raise.
C19_CloseOrder ==
  (Closed /\ StepsAt({"detection_active = False"}) # {})
    => ( /\ \E i \in StepsAt({"detection_active = False", "timer.stop"}),
               j \in StepsAt({"stop_emergency", "cleanup"}),
               k \in StepsAt({"log_event"}) : i < j /\ j < k
         /\ StepsAt({"cleanup", "cleanup raised"}) # {} )

\* C20: a speak_status call with a status that is not critical, made while a
\* high-priority message is pending (in the queue, or taken from it and not
\* yet spoken to the end), puts nothing in the queue.
C20_NormalDroppedWhileHighPending ==
  (lastOp = "speak_status" /\ call_status \notin critical_statuses /\ call_pending)
    => ~call_enqueued

\* C21: when speak_status accepts a critical status, the messages pending in
\* the queue are discarded first: right after the call the queue holds that
\* one critical message and nothing else.
C21_CriticalClearsQueue ==
  (lastOp = "speak_status" /\ call_status \in critical_statuses /\ call_enqueued)
    => speech_queue = <<[status |-> call_status, priority |-> "high"]>>

\* a critical status accepted while an earlier message was still in the queue
\* (the consumer idle, so the pending message was in the queue)
C21_Witness ==
  /\ lastOp = "speak_status"
  /\ call_status \in critical_statuses
  /\ call_enqueued
  /\ call_pending
  /\ worker_pc = "get"
  /\ speech_data = <<>>

\* C22: speak_status never enqueues a normal-priority status equal to the
\* last enqueued one less than min_speech_interval after that enqueue; a
\* status that differs from the last enqueued one is not held back by the
\* interval (it is enqueued whenever nothing is being spoken).
C22_NormalRepeatLimited ==
  [][ (lastOp' = "speak_status" /\ call_status' \notin critical_statuses) =>
        /\ ( /\ call_status' = last_spoken_status
             /\ clock' - last_speech_time < min_speech_interval )
             => ~call_enqueued'
        /\ (call_status' # last_spoken_status /\ ~is_speaking)
             => call_enqueued'
    ]_vars

\* a repeated normal status dropped although nothing was being spoken
C22_Witness ==
  /\ lastOp = "speak_status"
  /\ call_status \notin critical_statuses
  /\ call_status = last_spoken_status
  /\ ~call_enqueued
  /\ ~is_speaking
  /\ clock - last_speech_time < min_speech_interval

\* C23: a speak_status call with a critical status is exempt from the
\* repetition limit: it is enqueued even when the same status was enqueued
\* less than min_speech_interval earlier.
C23_CriticalExemptFromLimit ==
  [][ ( /\ lastOp' = "speak_status"
        /\ call_status' \in critical_statuses
        /\ call_status' = last_spoken_status
        /\ clock' - last_speech_time < min_speech_interval )
        => call_enqueued'
    ]_vars

\* C24: when a landmark of the 6-point eye model is missing from the
\* landmarks, calculate_ear returns the last smoothed EAR and leaves the
\* smoothing history as it was.
C24_MissingEyeLandmarkKeepsLast ==
  [][ ( /\ lastOp' = "calculate_ear"
        /\ \/ missing(landmarks', left_eye_points)
           \/ missing(landmarks', right_eye_points) )
        => (returned' = last_ear /\ ear_history' = ear_history)
    ]_vars

\* the latest entry of a history
Newest(history) == history[Len(history)]

\* C25: a frame whose horizontal distance is below the guard threshold (0.5
\* for an eye, 1.0 for the mouth) is discarded: the extractor returns exactly
\* what it returned on the frame before, whatever the length of the history;
\* at a distance equal to the threshold the frame's own ratio is computed and
\* enters the history.
C25_NarrowFrameDiscarded ==
  [][ /\ ( /\ lastOp' = "calculate_ear"
           /\ ~missing(landmarks', left_eye_points)
           /\ ~missing(landmarks', right_eye_points)
           /\ ~head_pose_data'.given )
           => /\ ( /\ lastOp = "calculate_ear"
                   /\ landmarks'.left.h < 5
                   /\ landmarks'.right.h < 5 )
                   => returned' = returned
              /\ (landmarks'.left.h = 5 /\ landmarks'.right.h = 5)
                   => Newest(ear_history') =
                        Times(Plus(Ratio(landmarks'.left.v1 + landmarks'.left.v2,
                                         2 * landmarks'.left.h),
                                   Ratio(landmarks'.right.v1 + landmarks'.right.v2,
                                         2 * landmarks'.right.h)),
                              <<1, 2>>)
      /\ (lastOp' = "calculate_mar" /\ ~missing(landmarks', mouth_points))
           => /\ (lastOp = "calculate_mar" /\ landmarks'.mouth.h < 10)
                   => returned' = returned
              /\ landmarks'.mouth.h = 10
                   => Newest(mar_history') =
                        Ratio(landmarks'.mouth.v1 + landmarks'.mouth.v2,
                              2 * landmarks'.mouth.h)
    ]_vars

\* C26: every value calculate_ear returns lies in [0, 1], with or without
\* head-pose data, and every value calculate_mar returns is at least 0.
C26_RatiosInRange ==
  /\ lastOp = "calculate_ear"
       => (~Less(returned, <<0, 1>>) /\ ~Less(<<1, 1>>, returned))
  /\ lastOp = "calculate_mar" => ~Less(returned, <<0, 1>>)

\* the last n entries of a sequence
LastOf(seq, n) == SubSeq(seq, Len(seq) - n + 1, Len(seq))

Min(a, b) == IF a < b THEN a ELSE b

\* C27: after k measured frames since the reset (every frame since then
\* measured), calculate_ear returns the arithmetic mean of the last min(k, 8)
\* raw ratios and calculate_mar the mean of the last min(k, 10); the histories
\* hold these ratios oldest first, and never more than 8 and 10 entries.
C27_MeanOfLastSamples ==
  /\ Len(ear_history) <= 8
  /\ Len(mar_history) <= 10
  /\ (lastOp = "calculate_ear" /\ all_valid)
       => /\ ear_history = LastOf(samples, Min(Len(samples), 8))
          /\ returned = mean(ear_history)
  /\ (lastOp = "calculate_mar" /\ all_valid)
       => /\ mar_history = LastOf(samples, Min(Len(samples), 10))
          /\ returned = mean(mar_history)

\* the ninth measured frame of an eye, the first ratio (another than the
\* second) dropped from the history
C27_Witness ==
  /\ lastOp = "calculate_ear"
  /\ all_valid
  /\ Len(samples) = 9
  /\ samples[1] # samples[2]
  /\ Len(ear_history) = 8

\* C28: whether or not the siren sound and the text-to-speech engine could be
\* initialised, trigger_emergency on an idle escalator makes it active and
\* starts the flash cycle, which stays started while the escalator is active,
\* and stop_emergency on an active one makes it idle and stops the flashes;
\* a step of one alert channel, a failing one included, leaves the other
\* channels as they are.
C28_DegradedEscalatorStillWorks ==
  /\ [][ (lastOp' = "trigger_emergency" /\ ~is_emergency_active)
           => /\ is_emergency_active'
              /\ flash_timer' = "Running"
              /\ flash_count' = 0
              /\ "flash" \in started'
       ]_vars
  /\ [](is_emergency_active => flash_timer = "Running")
  /\ [][ (lastOp' = "stop_emergency" /\ is_emergency_active)
           => /\ ~is_emergency_active'
              /\ flash_timer' = "None"
              /\ flashed' = <<"normal">>
       ]_vars
  /\ [][ lastOp' = "play_sound"
           => UNCHANGED <<is_emergency_active, flash_timer, flash_count,
                          tts_thread, tts_engine>>
       ]_vars
  /\ [][ lastOp' = "speak"
           => UNCHANGED <<is_emergency_active, flash_timer, flash_count,
                          siren_thread, siren_sound>>
       ]_vars
  /\ [][ lastOp' = "flash_screen" => UNCHANGED <<siren_thread, tts_thread>> ]_vars

\* a flash of an emergency triggered with neither a siren sound nor a
\* text-to-speech engine since construction
C28_Witness ==
  /\ ~siren_sound
  /\ ~tts_engine
  /\ cleanup_calls = 0
  /\ is_emergency_active
  /\ lastOp = "flash_screen"
  /\ flashed # <<>>

\* C29: when the append to the log file fails in an update_status that
\* changes the status, no error reaches the handler (it runs to its end),
\* current_status is the new status, and the inactive-duration tracking is
\* updated as for a row that was written: started on leaving Active for an
\* inactive status, cleared on returning to Active.
C29_WriteFailureKeepsState ==
  [][ (lastOp' = "update_status" /\ ~write_ok' /\ logged' # <<>>)
        => /\ finished'
           /\ log_file' = log_file
           /\ current_status' = logged'[1].status
           /\ current_status' # current_status
           /\ (current_status = "Active" /\ _is_inactive_status(current_status'))
                => last_inactive_start' = clock'
           /\ (_is_inactive_status(current_status) /\ current_status' = "Active")
                => last_inactive_start' = None
    ]_vars

\* a change from Active to an inactive status whose row could not be written
C29_Witness ==
  /\ lastOp = "update_status"
  /\ ~write_ok
  /\ logged # <<>>
  /\ _is_inactive_status(current_status)
  /\ last_inactive_start = clock
  /\ clock > 0
  /\ finished

\* C30: after clear_logs the file holds its header and no row, whatever was
\* logged before, and the inactive-duration tracking is reset.
C30_ClearLogsEmptiesFile ==
  lastOp = "clear_logs"
    => (log_file.exists /\ log_file.rows = <<>> /\ last_inactive_start = None)


\* C31: Drowsy (resp. Yawning) is emitted on a frame only if the most recently
\* processed frames were single-face frames with EAR below 0.22 (resp. MAR
\* above 0.6 with EAR >= 0.22); a face-missing or multiple-face frame breaks
\* the run.  Stated on the frame just before the one that emits the status:
\* it is a processed frame, single-face, and of the same kind.
C31_StatusNeedsUnbrokenRun ==
  [][ /\ (lastOp' = "frame" /\ current_status' = "Drowsy")
        => ( /\ lastOp = "frame"
             /\ path = "single"
             /\ frameEar < drowsy_ear_threshold )
      /\ (lastOp' = "frame" /\ current_status' = "Yawning")
        => ( /\ lastOp = "frame"
             /\ path = "single"
             /\ frameEar >= drowsy_ear_threshold
             /\ frameMar > yawn_mar_threshold ) ]_vars

\* C32: the first non-Active frame of a run of non-Active frames sets
\* inactive_start_time to its own time, and every later non-Active frame of
\* the run leaves it unchanged, whatever non-Active status it has.
C32_StartTimeFixedOverRun ==
  [][ (lastOp' = "frame" /\ current_status' # "Active")
        => IF lastOp = "frame" /\ current_status # "Active"
           THEN inactive_start_time' = inactive_start_time
           ELSE inactive_start_time' = frameTime' ]_vars

\* a run that went from Drowsy to Multiple Persons Detected and kept the
\* start time of its first frame
C32_Witness ==
  /\ AfterFrame
  /\ current_status = "Multiple Persons Detected"
  /\ drowsy_counter >= drowsy_threshold
  /\ inactive_start_time # None
  /\ inactive_start_time < frameTime

\* C33: at the end of every processed frame the escalator is Active exactly
\* when the window is open and the frame's elapsed time, its time minus
\* inactive_start_time, is at least inactivity_threshold; and the escalator is
\* never Active while detection is not active.
C33_EscalatorActiveIffElapsed ==
  /\ AfterFrame
       => ( is_emergency_active
              <=> ( /\ inactive_start_time # None
                    /\ frameTime - inactive_start_time >= inactivity_threshold ) )
  /\ ~detection_active => ~is_emergency_active

\* a frame later than the one that triggered, the escalator still Active
C33_Witness ==
  /\ AfterFrame
  /\ is_emergency_active
  /\ ~EmergencyLogged
  /\ frameTime - inactive_start_time > inactivity_threshold

\* stop_detection has returned and start_detection has not been called since
Stopped == lastOp \in {"stop", "display"}

\* C34: from the return of stop_detection until the next start_detection the
\* escalator stays Idle and no frame is classified: every step of that span,
\* a timer tick above all, leaves the escalator Idle and the inactivity
\* window, the latch, the status, the counters and the absence timer
\* unchanged, and logs nothing.
C34_StoppedTicksChangeNothing ==
  /\ [](Stopped => (~detection_active /\ ~is_emergency_active))
  /\ [][ (Stopped /\ lastOp' # "start")
           => ( /\ lastOp' = "display"
                /\ ~is_emergency_active'
                /\ inactive_start_time' = inactive_start_time
                /\ emergency_triggered' = emergency_triggered
                /\ current_status' = current_status
                /\ drowsy_counter' = drowsy_counter
                /\ yawn_counter' = yawn_counter
                /\ face_lost_time' = face_lost_time
                /\ logged' = <<>>
                /\ flashed' = <<>> ) ]_vars

\* a tick after the stop_detection that ended an emergency: the window it left
\* open is older than inactivity_threshold, and the escalator is Idle
C34_Witness ==
  /\ lastOp = "display"
  /\ ~detection_active
  /\ inactive_start_time # None
  /\ clock - inactive_start_time >= inactivity_threshold
  /\ ~is_emergency_active
  /\ ~emergency_triggered

\* C35: within one emergency episode the colours emitted alternate strictly
\* red, blue, red, blue, ..., the first colour after every trigger that moved
\* the escalator from Idle to Active being red.
C35_FlashAlternates ==
  [][ (flashed' # <<>> /\ flashed'[Len(flashed')] # "normal")
        => flashed' = <<IF lastFlash \in {"none", "blue"} THEN "red" ELSE "blue">>
    ]_vars

\* the third colour of an episode, red after red and blue
C35_Witness ==
  /\ lastOp = "flash_screen"
  /\ is_emergency_active
  /\ flashed = <<"red">>
  /\ flash_count = 3

\* C36: the stop_emergency that moves the escalator from Active to Idle emits
\* "normal" exactly once, and no colour is emitted while the escalator is
\* Idle, whether by a timeout that was pending when the timer was stopped or
\* by any other step.
C36_NormalOnceThenNoColour ==
  /\ [][ (is_emergency_active /\ ~is_emergency_active')
           => flashed' = <<"normal">> ]_vars
  /\ [][ ~is_emergency_active' => (flashed' \in {<<>>, <<"normal">>}) ]_vars
  /\ [][ (~is_emergency_active /\ ~is_emergency_active') => flashed' = <<>> ]_vars

\* the pending timeout has been delivered to the Idle escalator
C36_Witness ==
  /\ lastOp = "flash_screen"
  /\ ~is_emergency_active
  /\ ~tick_pending
  /\ flash_timer = "None"
  /\ flashed = <<>>
  /\ lastFlash # "none"

\* C37: a call of log_status_change (one per update_status that changes the
\* status) logs one row and
\*   from Active to an inactive status, starts the tracking at the time of
\*     the call and logs '-';
\*   between two inactive statuses, leaves the tracking as it is and logs '-';
\*   from an inactive status to Active, logs the time of the call minus the
\*     start of the tracking, that is minus the time of the departure from
\*     Active, and clears the tracking ('-' when nothing is tracked).
C37_DurationSinceDeparture ==
  [][ (lastOp' = "update_status" /\ current_status' # current_status)
        => /\ Len(logged') = 1
           /\ logged'[1].status = current_status'
           /\ IF current_status = "Active"
              THEN /\ last_inactive_start' = clock'
                   /\ logged'[1].inactive_duration = None
              ELSE IF current_status' = "Active"
              THEN /\ last_inactive_start' = None
                   /\ logged'[1].inactive_duration =
                        IF last_inactive_start = None THEN None
                        ELSE clock' - last_inactive_start
              ELSE /\ last_inactive_start' = last_inactive_start
                   /\ logged'[1].inactive_duration = None
    ]_vars

\* the file after a departure from Active and the return to it two seconds
\* later: the return's row carries the duration
C37_Witness ==
  /\ lastOp = "update_status"
  /\ current_status = "Active"
  /\ last_inactive_start = None
  /\ Len(log_file.rows) = 3
  /\ log_file.rows[1].status = "Active"
  /\ log_file.rows[2].status = "Drowsy"
  /\ log_file.rows[3].status = "Active"
  /\ log_file.rows[3].inactive_duration = 2
  /\ logged = <<log_file.rows[3]>>
====
